---- MODULE Spec2Model ----
(***************************************************************************)
(* dockerbuilderhelper.py: a command-line wrapper that loads               *)
(* dockerbuilder.yml, resolves one named environment and shells out, in a  *)
(* fixed order, to docker / docker-compose.                                *)
(*                                                                         *)
(* One invocation of main() is one run: Start parses the arguments and     *)
(* loads the file, then one action per statement of main that touches the  *)
(* outside world (a subprocess.run call, the rewrite of the file).  Every  *)
(* subprocess.run is an action whose outcome (exit status 0, exit status   *)
(* non-zero, binary not found, binary not executable) is chosen by the     *)
(* environment at every call, probes or not, and so is                     *)
(* whether the bytes the process wrote to stdout and stderr are UTF-8      *)
(* where the code decodes them.  When a run has ended the next invocation  *)
(* may start: the file is the only state that survives an invocation.      *)
(*                                                                         *)
(* Representation of Python values:                                        *)
(*   - a dict is a function on the set of its keys ('k' in d is            *)
(*     k \in DOMAIN d); the empty dict is << >>;                            *)
(*   - composeargs, whose iteration order the code depends on, is the      *)
(*     sequence of its <<flag, value>> items in insertion order;           *)
(*   - a buildargs entry is held as the list str.split('=') returns for    *)
(*     it (<<"BUILD_ENV","test">> is 'BUILD_ENV=test', <<"FOO">> is        *)
(*     'FOO'); ArgText joins it back into the text docker receives;        *)
(*   - an argparse value that was not given (None) is "", which the code   *)
(*     cannot tell apart from it (it only tests truthiness).               *)
(* Not modelled: logging output, --verbose, and the flags main parses and  *)
(* never reads (--platform, --remove-cache, --clean, --hard-clean).        *)
(***************************************************************************)
EXTENDS Integers, Sequences, FiniteSets, TLC

VARIABLES
    file,             \* dockerbuilder.yml on disk: its 'environments' mapping
    file0,            \* the same, as it was when the current run started
    config,           \* main's local config['environments']
    args,             \* main's parsed arguments
    pc,               \* the statement of main the run is at
    compose_command,  \* main's compose_command (health_checks' result)
    hook,             \* execute_commands' loop position (1-based)
    calls,            \* the subprocess.run calls of this run, in order
    writes,           \* how often this run has rewritten dockerbuilder.yml
    stdout,           \* what this run has printed about environments
    exc,              \* the exception that ended the run, "" when none
    exit_code         \* the process's exit status, -1 while it runs

vars == <<file, file0, config, args, pc, compose_command, hook, calls,
          writes, stdout, exc, exit_code>>

----------------------------------------------------------------------------
(* Bounds of the model. *)

\* longest pre_build / post_build list
MaxHooks == 2
\* longest buildargs list
MaxBuildArgs == 2
\* longest platform list
MaxPlatforms == 2
\* most composeargs items
MaxComposeArgs == 2

----------------------------------------------------------------------------
(* Python helpers. *)

EmptyDict == << >>

\* d.get(k, default)
Get(d, k, default) == IF k \in DOMAIN d THEN d[k] ELSE default

\* sep.join(parts)
RECURSIVE Join(_, _)
Join(sep, parts) ==
    IF parts = << >> THEN ""
    ELSE IF Len(parts) = 1 THEN parts[1]
    ELSE parts[1] \o sep \o Join(sep, Tail(parts))

\* the text of a buildargs entry, from its '='-separated parts
ArgText(parts) == Join("=", parts)

\* [x for item in items for x in item]
RECURSIVE Flatten(_)
Flatten(items) ==
    IF items = << >> THEN << >> ELSE Head(items) \o Flatten(Tail(items))

\* [f(items[1]), f(items[2]), ...] for f(x) = <<flag, x>>
Prefixed(flag, items) == Flatten([i \in 1..Len(items) |-> <<flag, items[i]>>])

----------------------------------------------------------------------------
(* The outside world. *)

\* os.path.exists(path): the working directory holds the two default files
FilesOnDisk == {"Dockerfile", "docker-compose.yml"}

exists(path) == path \in FilesOnDisk

\* how a subprocess.run(..., check=True) call can end: exit status 0, a
\* non-zero exit status (CalledProcessError), no such binary, or no shell
\* for a hook (FileNotFoundError), and any other OSError of the exec, of
\* which a binary without the execute bit (PermissionError) stands for all
Outcomes == {"ok", "nonzero", "missing", "denied"}

\* what a process wrote to its two pipes: whether the bytes of each are
\* valid UTF-8 (the empty output is)
Streams == [stdout : BOOLEAN, stderr : BOOLEAN]

\* result.stdout.decode() and, when stderr is not empty,
\* result.stderr.decode() after exit status 0; e.stderr.decode() in the
\* except clause after a non-zero one: TRUE when a decode raises
decode_error(outcome, streams) ==
    CASE outcome = "ok"      -> ~streams.stdout \/ ~streams.stderr
      [] outcome = "nonzero" -> ~streams.stderr
      [] OTHER               -> FALSE

\* the exception that ends the run at a subprocess.run whose output is
\* piped and logged, "" when the step goes on: FileNotFoundError and
\* PermissionError are not caught, the decode raises UnicodeDecodeError
\* before the logging call and before sys.exit(1), and the except clause
\* ends in sys.exit(1)
piped_run_error(outcome, streams) ==
    CASE outcome = "missing"             -> "FileNotFoundError"
      [] outcome = "denied"              -> "PermissionError"
      [] decode_error(outcome, streams)  -> "UnicodeDecodeError"
      [] outcome = "nonzero"             -> "SystemExit"
      [] OTHER                           -> ""

\* the record of one subprocess.run call: how the process ended, and
\* whether decoding its output raised UnicodeDecodeError
Call(step, argv, shell, outcome, unicode_error) ==
    [step |-> step, argv |-> argv, shell |-> shell, outcome |-> outcome,
     unicode_error |-> unicode_error]

----------------------------------------------------------------------------
(* yaml.dump / yaml.safe_load. *)

\* the composeargs flags of the model in the order sorted() gives them
\* (code-point order of the strings)
FlagOrder == <<"--env-file", "-d", "-p">>

\* the items of a mapping in sorted key order, as yaml.dump writes them
SortedItems(items) ==
    Flatten([k \in 1..Len(FlagOrder) |->
        LET hit == {i \in 1..Len(items) : items[i][1] = FlagOrder[k]}
        IN  IF hit = {} THEN << >> ELSE <<items[CHOOSE i \in hit : TRUE]>>])

\* one environment spec as yaml.dump writes it: the keys of every mapping
\* sorted; scalars and lists as they are
DumpSpec(spec) ==
    [k \in DOMAIN spec |->
        IF k = "composeargs" THEN SortedItems(spec[k]) ELSE spec[k]]

\* yaml.dump(config, file): the whole document rewritten
yaml_dump(environments) ==
    [n \in DOMAIN environments |-> DumpSpec(environments[n])]

\* load_config(): the document as written
load_config(document) == document

\* del of the whole mapping instead of one key
DelAll(d, k) == EmptyDict

\* del d[k]
Del(d, k) == [n \in DOMAIN d \ {k} |-> d[n]]

----------------------------------------------------------------------------
(* build_image, run_compose, push_image: what each checks and the         *)
(* argument list each hands to subprocess.run.                            *)

dockerfile_of(env_config) == Get(env_config, "dockerfile", "Dockerfile")

compose_file_of(env_config) == Get(env_config, "composefile", "docker-compose.yml")

\* the dict comprehension keyed by split('=')[1], the value
required_env_vars_error_by_value(env_config) ==
    LET entries == Get(env_config, "buildargs", << >>)
        keys    == {entries[i][2] : i \in {j \in 1..Len(entries) : Len(entries[j]) >= 2}}
    IN  IF \E i \in 1..Len(entries) : Len(entries[i]) < 2 THEN "IndexError"
        ELSE IF "BUILD_ENV" \notin keys THEN "KeyError"
        ELSE ""

\* the exception the dict comprehension and the required-variable loop of
\* build_image raise, "" when none: arg.split('=')[1] raises IndexError at
\* an entry without '='; BUILD_ENV not among the keys raises KeyError
required_env_vars_error(env_config) ==
    LET entries == Get(env_config, "buildargs", << >>)
        keys    == {entries[i][1] : i \in 1..Len(entries)}
    IN  IF \E i \in 1..Len(entries) : Len(entries[i]) < 2 THEN "IndexError"
        ELSE IF "BUILD_ENV" \notin keys THEN "KeyError"
        ELSE ""

\* build_image without the os.path.exists test
build_image_error_unchecked(env_config) == required_env_vars_error(env_config)

\* the exception build_image raises before it runs anything, "" when none
build_image_error(env_config) ==
    IF ~exists(dockerfile_of(env_config)) THEN "FileNotFoundError"
    ELSE required_env_vars_error(env_config)

\* the tag build_image passes to -t
build_tag(env_config) ==
    IF Get(env_config, "push", FALSE) /\ "registry" \in DOMAIN env_config
    THEN env_config["registry"] \o "/" \o env_config["tag"]
    ELSE env_config["tag"]

build_command(env_config, no_cache) ==
    <<"docker", "build", "-f", dockerfile_of(env_config)>>
    \o (IF no_cache THEN <<"--no-cache">> ELSE << >>)
    \o (IF "buildargs" \in DOMAIN env_config
        THEN Prefixed("--build-arg",
                 [i \in 1..Len(env_config["buildargs"]) |->
                     ArgText(env_config["buildargs"][i])])
        ELSE << >>)
    \o (IF "platform" \in DOMAIN env_config
        THEN <<"--platform", Join(",", env_config["platform"])>>
        ELSE << >>)
    \o (IF "tag" \in DOMAIN env_config
        THEN <<"-t", build_tag(env_config)>>
        ELSE << >>)
    \o <<".">>

\* the exception run_compose raises before it runs anything, "" when none
run_compose_error(env_config) ==
    IF ~exists(compose_file_of(env_config)) THEN "FileNotFoundError" ELSE ""

\* what run_compose appends after the composeargs
compose_up == <<"up", "-d">>

run_compose_command(env_config, compose_cmd) ==
    compose_cmd
    \o <<"-f", compose_file_of(env_config)>>
    \o (IF "composeargs" \in DOMAIN env_config
        THEN Flatten(env_config["composeargs"])
        ELSE << >>)
    \o compose_up

\* whether push_image runs anything
push_has_target(env_config) ==
    "tag" \in DOMAIN env_config /\ "registry" \in DOMAIN env_config

\* the pushed name without its registry
full_tag_plain(env_config) == env_config["tag"]

\* line 159
full_tag(env_config) == env_config["registry"] \o "/" \o env_config["tag"]

push_command(env_config) == <<"docker", "push", full_tag(env_config)>>

----------------------------------------------------------------------------
(* main. *)

\* the value of an argparse option that was not given
NotGiven == ""

\* parser.parse_args(): the environment, --list, --remove, --no-cache,
\* --push, --buildonly
Namespace(environment, list, remove, no_cache, push, buildonly) ==
    [environment |-> environment, list |-> list, remove |-> remove,
     no_cache |-> no_cache, push |-> push, buildonly |-> buildonly]

\* config['environments'][args.environment]
env_config == config[args.environment]

\* what the run prints about environments
Printed(msg, names) == [msg |-> msg, names |-> names]

\* main with the push moved before the compose up
StepsPushFirst == <<"pre_build", "build", "push", "compose", "post_build",
                    "interactive", "done">>

\* the statements of main after the health checks, in program order
Steps == <<"pre_build", "build", "compose", "push", "post_build",
           "interactive", "done">>

\* the condition main tests before it enters a step
Enters(step, ec, a) ==
    CASE step = "pre_build"   -> Get(ec, "pre_build", << >>) # << >>
      [] step = "build"       -> TRUE
      [] step = "compose"     -> ~a.buildonly /\ ~Get(ec, "buildonly", FALSE)
      [] step = "push"        -> a.push \/ Get(ec, "push", FALSE)
      [] step = "post_build"  -> Get(ec, "post_build", << >>) # << >>
      [] step = "interactive" -> Get(ec, "interactive", FALSE)
      [] OTHER                -> TRUE

\* the position of a step in Steps
Position(step) == CHOOSE i \in 1..Len(Steps) : Steps[i] = step

\* the first step from position i on that main enters
RECURSIVE FirstFrom(_, _, _)
FirstFrom(i, ec, a) ==
    IF Enters(Steps[i], ec, a) THEN Steps[i] ELSE FirstFrom(i + 1, ec, a)

\* the step main goes to when `step` has returned
StepAfter(step, ec, a) == FirstFrom(Position(step) + 1, ec, a)

\* main moves on to `step`; falling off the end of main is exit status 0
Goto(step) ==
    /\ pc' = step
    /\ exit_code' = IF step = "done" THEN 0 ELSE -1
    /\ exc' = ""

\* sys.exit(1), sys.exit(message) and an uncaught exception all end the
\* process with exit status 1
Die(exception) ==
    /\ pc' = "done"
    /\ exit_code' = 1
    /\ exc' = exception

\* subprocess.run(argv) whose output is not decoded (the probes, the
\* shell): the call is logged with the way it ended
Run(step, argv, shell, outcome) ==
    calls' = Append(calls, Call(step, argv, shell, outcome, FALSE))

\* subprocess.run(argv) followed by the decoding of its output
RunPiped(step, argv, shell, outcome, streams) ==
    calls' = Append(calls, Call(step, argv, shell, outcome,
                                decode_error(outcome, streams)))

\* lines 191-208: a new invocation parses its arguments and loads the file
Start(a) ==
    /\ pc \in {"idle", "done"}
    /\ args' = a
    /\ config' = load_config(file)
    /\ file0' = file
    /\ pc' = "main"
    /\ compose_command' = << >>
    /\ hook' = 1
    /\ calls' = << >>
    /\ writes' = 0
    /\ stdout' = Printed("", {})
    /\ exc' = ""
    /\ exit_code' = -1
    /\ UNCHANGED file

\* lines 210-215: --list
ListEnvironments ==
    /\ pc = "main"
    /\ args.list
    /\ stdout' = Printed("Environments:", DOMAIN config)
    /\ Goto("done")
    /\ UNCHANGED <<file, file0, config, args, compose_command, hook, calls, writes>>

\* lines 217-226: --remove
RemoveEnvironment ==
    /\ pc = "main"
    /\ ~args.list
    /\ args.remove # NotGiven
    /\ IF args.remove \in DOMAIN config
       THEN /\ config' = Del(config, args.remove)
            /\ file' = yaml_dump(config')
            /\ writes' = writes + 1
            /\ stdout' = Printed("removed.", {args.remove})
       ELSE /\ stdout' = Printed("not found.", {args.remove})
            /\ UNCHANGED <<config, file, writes>>
    /\ Goto("done")
    /\ UNCHANGED <<file0, args, compose_command, hook, calls>>

\* main without the test of lines 234-237
ResolveEnvironmentUnchecked ==
    /\ pc = "main"
    /\ ~args.list
    /\ args.remove = NotGiven
    /\ IF args.environment = NotGiven
       THEN /\ stdout' = Printed("No environment specified.", {})
            /\ Die("SystemExit")
       ELSE /\ Goto("health_docker")
            /\ UNCHANGED stdout
    /\ UNCHANGED <<file, file0, config, args, compose_command, hook, calls, writes>>

\* lines 228-244: the environment is looked up (and logging set up)
ResolveEnvironment ==
    /\ pc = "main"
    /\ ~args.list
    /\ args.remove = NotGiven
    /\ IF args.environment = NotGiven
       THEN /\ stdout' = Printed("No environment specified.", {})
            /\ Die("SystemExit")
       ELSE IF args.environment \notin DOMAIN config
       THEN /\ stdout' = Printed("not found.", {args.environment})
            /\ Die("SystemExit")
       ELSE /\ Goto("health_docker")
            /\ UNCHANGED stdout
    /\ UNCHANGED <<file, file0, config, args, compose_command, hook, calls, writes>>

\* check_docker_compose wrongly answering with the standalone form
ComposeSubcommandAsStandalone == <<"docker-compose">>

\* line 53 and line 58: the two forms check_docker_compose returns
ComposeStandalone == <<"docker-compose">>
ComposeSubcommand == <<"docker", "compose">>

\* lines 69-73: health_checks probes docker
ProbeDocker(outcome) ==
    /\ pc = "health_docker"
    /\ Run("probe_docker", <<"docker", "--version">>, FALSE, outcome)
    /\ CASE outcome = "ok"      -> Goto("health_compose")
         [] outcome = "nonzero" -> Die("SystemExit")
         [] outcome = "missing" -> Die("FileNotFoundError")
         [] OTHER               -> Die("PermissionError")
    /\ UNCHANGED <<file, file0, config, args, compose_command, hook, writes, stdout>>

\* lines 50-54: check_docker_compose probes the standalone binary
ProbeDockerCompose(outcome) ==
    /\ pc = "health_compose"
    /\ Run("probe_docker_compose", <<"docker-compose", "--version">>, FALSE, outcome)
    /\ CASE outcome = "ok" ->
                /\ compose_command' = ComposeStandalone
                /\ Goto(FirstFrom(1, env_config, args))
         [] outcome \in {"nonzero", "missing"} ->
                /\ Goto("health_fallback")
                /\ UNCHANGED compose_command
         [] OTHER ->
                /\ Die("PermissionError")
                /\ UNCHANGED compose_command
    /\ UNCHANGED <<file, file0, config, args, hook, writes, stdout>>

\* lines 55-60: check_docker_compose probes the docker subcommand
ProbeComposeSubcommand(outcome) ==
    /\ pc = "health_fallback"
    /\ Run("probe_compose_subcommand", <<"docker", "compose", "version">>, FALSE, outcome)
    /\ CASE outcome = "ok" ->
                /\ compose_command' = ComposeSubcommand
                /\ Goto(FirstFrom(1, env_config, args))
         [] outcome \in {"nonzero", "missing"} ->
                /\ Die("SystemExit")
                /\ UNCHANGED compose_command
         [] OTHER ->
                /\ Die("PermissionError")
                /\ UNCHANGED compose_command
    /\ UNCHANGED <<file, file0, config, args, hook, writes, stdout>>

\* lines 178-187: one iteration of execute_commands over env_config[step]
ExecuteCommand(step, outcome, streams) ==
    /\ pc = step
    /\ RunPiped(step, <<env_config[step][hook]>>, TRUE, outcome, streams)
    /\ IF piped_run_error(outcome, streams) # ""
       THEN /\ Die(piped_run_error(outcome, streams))
            /\ UNCHANGED hook
       ELSE IF hook < Len(env_config[step])
       THEN /\ hook' = hook + 1
            /\ Goto(step)
       ELSE /\ hook' = 1
            /\ Goto(StepAfter(step, env_config, args))
    /\ UNCHANGED <<file, file0, config, args, compose_command, writes, stdout>>

\* lines 250-251
PreBuild(outcome, streams) == ExecuteCommand("pre_build", outcome, streams)

\* lines 268-269
PostBuild(outcome, streams) == ExecuteCommand("post_build", outcome, streams)

\* line 254
no_cache_of(a, ec) == a.no_cache \/ Get(ec, "no_cache", FALSE)

\* lines 254-257, 84-120: build_image
BuildImage(outcome, streams) ==
    /\ pc = "build"
    /\ IF build_image_error(env_config) # ""
       THEN /\ Die(build_image_error(env_config))
            /\ UNCHANGED calls
       ELSE /\ RunPiped("build",
                        build_command(env_config, no_cache_of(args, env_config)),
                        FALSE, outcome, streams)
            /\ IF piped_run_error(outcome, streams) = ""
               THEN Goto(StepAfter("build", env_config, args))
               ELSE Die(piped_run_error(outcome, streams))
    /\ UNCHANGED <<file, file0, config, args, compose_command, hook, writes, stdout>>

\* lines 260-261, 130-149: run_compose; extend() grows main's list in place
RunCompose(outcome, streams) ==
    /\ pc = "compose"
    /\ IF run_compose_error(env_config) # ""
       THEN /\ Die(run_compose_error(env_config))
            /\ UNCHANGED <<calls, compose_command>>
       ELSE /\ compose_command' = run_compose_command(env_config, compose_command)
            /\ RunPiped("compose", compose_command', FALSE, outcome, streams)
            /\ IF piped_run_error(outcome, streams) = ""
               THEN Goto(StepAfter("compose", env_config, args))
               ELSE Die(piped_run_error(outcome, streams))
    /\ UNCHANGED <<file, file0, config, args, hook, writes, stdout>>

\* push_image whose except clause only logs
PushImageCarriesOn(outcome, streams) ==
    /\ pc = "push"
    /\ IF ~push_has_target(env_config)
       THEN UNCHANGED calls
       ELSE RunPiped("push", push_command(env_config), FALSE, outcome, streams)
    /\ Goto(StepAfter("push", env_config, args))
    /\ UNCHANGED <<file, file0, config, args, compose_command, hook, writes, stdout>>

\* lines 264-265, 158-169: push_image
PushImage(outcome, streams) ==
    /\ pc = "push"
    /\ IF ~push_has_target(env_config)
       THEN /\ Goto(StepAfter("push", env_config, args))
            /\ UNCHANGED calls
       ELSE /\ RunPiped("push", push_command(env_config), FALSE, outcome, streams)
            /\ IF piped_run_error(outcome, streams) = ""
               THEN Goto(StepAfter("push", env_config, args))
               ELSE Die(piped_run_error(outcome, streams))
    /\ UNCHANGED <<file, file0, config, args, compose_command, hook, writes, stdout>>

\* lines 272-277: the interactive shell, run on the terminal (no pipes,
\* nothing decoded); no exception of the call is caught
Interactive(outcome) ==
    /\ pc = "interactive"
    /\ IF Get(env_config, "container", "") = ""
       THEN /\ Die("SystemExit")
            /\ UNCHANGED calls
       ELSE /\ Run("interactive",
                   <<"docker", "exec", "-ti", env_config["container"], "bash">>,
                   FALSE, outcome)
            /\ CASE outcome = "ok"      -> Goto("done")
                 [] outcome = "nonzero" -> Die("CalledProcessError")
                 [] outcome = "missing" -> Die("FileNotFoundError")
                 [] OTHER               -> Die("PermissionError")
    /\ UNCHANGED <<file, file0, config, args, compose_command, hook, writes, stdout>>

----------------------------------------------------------------------------
(* The invocations and the configurations the model draws from. *)

\* the environment names of the model; the last is never a key of the file
Names == {"test", "prod"}
Unknown == "nonexistent-environment"

\* the command lines: build runs of test under every combination of
\* --no-cache, --push and --buildonly, build runs of prod, of an unknown
\* name and of none, with and without --push, --list, --remove
ArgsSet ==
    {Namespace("test", FALSE, NotGiven, nc, p, b) :
        nc \in BOOLEAN, p \in BOOLEAN, b \in BOOLEAN}
    \cup {Namespace(e, FALSE, NotGiven, FALSE, p, FALSE) :
        e \in {"prod", Unknown, NotGiven}, p \in BOOLEAN}
    \cup {Namespace(NotGiven, TRUE, "test", FALSE, FALSE, FALSE)}
    \cup {Namespace(e, FALSE, r, FALSE, FALSE, FALSE) :
        e \in {NotGiven, "test"}, r \in Names \cup {Unknown}}

\* a key that may be absent: the empty dict, or the key with one of vals
Opt(k, vals) == {EmptyDict} \cup {k :> v : v \in vals}

\* the sequences over S of length at most n
SeqsUpTo(S, n) == UNION {[1..m -> S] : m \in 0..n}

\* a list of n shell commands
HookList(step, n) == [i \in 1..n |-> "echo " \o step \o " " \o ToString(i)]

\* pre_build / post_build: absent, or a list of 1..MaxHooks commands
Hooks(step) == Opt(step, {HookList(step, n) : n \in 1..MaxHooks})

\* buildargs entries: 'BUILD_ENV=test', 'FOO=a=b' and 'FOO'
BuildArgPool == {<<"BUILD_ENV", "test">>, <<"FOO", "a", "b">>, <<"FOO">>}

\* platform lists
PlatformPool == <<"linux/amd64", "linux/arm64", "linux/arm/v7", "linux/386">>

\* composeargs: every ordering of at most MaxComposeArgs distinct flags
ComposeItems == {<<"-d", "">>, <<"-p", "proj">>, <<"--env-file", ".env">>}
ComposeArgLists ==
    {l \in SeqsUpTo(ComposeItems, MaxComposeArgs) :
        \A i, j \in 1..Len(l) : i # j => l[i][1] # l[j][1]}

\* a spec with which every step of main runs
GoodBuildArgs == "buildargs" :> << <<"BUILD_ENV", "test">> >>
Target == ("tag" :> "test:latest") @@ ("registry" :> "myregistry.com")
Shell == ("interactive" :> TRUE) @@ ("container" :> "test-container")

\* the specs that decide which steps run and where a run stops
FlowSpecs ==
    {df @@ cf @@ ba @@ tg @@ pu @@ bo @@ sh @@ pre @@ post :
        df \in Opt("dockerfile", {"invalid_path/Dockerfile"}),
        cf \in Opt("composefile", {"invalid_path/docker-compose.yml"}),
        ba \in {EmptyDict, GoodBuildArgs},
        tg \in {EmptyDict, Target},
        pu \in Opt("push", {TRUE}),
        bo \in Opt("buildonly", {TRUE}),
        sh \in {EmptyDict, "interactive" :> TRUE, Shell},
        pre \in Hooks("pre_build"),
        post \in Opt("post_build", {HookList("post_build", MaxHooks)})}

\* the state before the first invocation, the file holding `environments`
InitWith(Files) ==
    /\ file \in Files
    /\ file0 = file
    /\ config = EmptyDict
    /\ args = Namespace(NotGiven, FALSE, NotGiven, FALSE, FALSE, FALSE)
    /\ pc = "idle"
    /\ compose_command = << >>
    /\ hook = 1
    /\ calls = << >>
    /\ writes = 0
    /\ stdout = Printed("", {})
    /\ exc = ""
    /\ exit_code = -1

\* a file with the single environment test
OneEnvironment(Specs) == {"test" :> spec : spec \in Specs}

\* a spec with which every statement of main runs
FullSpec ==
    GoodBuildArgs @@ Target @@ ("push" :> TRUE) @@ Shell
    @@ ("pre_build" :> HookList("pre_build", 1))
    @@ ("post_build" :> HookList("post_build", 1))
    @@ ("composeargs" :> << <<"-p", "proj">>, <<"--env-file", ".env">> >>)

\* specs with a buildargs entry that holds no '=' next to BUILD_ENV=test
MalformedSpecs ==
    {("buildargs" :> << <<"BUILD_ENV", "test">>, <<"FOO">> >>) @@ rest :
        rest \in {EmptyDict, Target @@ ("push" :> TRUE) @@ Shell}}

\* the files of the runs that differ in which steps run and where they stop
Init == InitWith(OneEnvironment(FlowSpecs \cup MalformedSpecs))

\* files with both environments, for the --remove runs
RemoveSpecs == {FullSpec, GoodBuildArgs @@ ("buildonly" :> TRUE),
                GoodBuildArgs @@ ("composeargs" :> << <<"-d", "">> >>)}
InitRemove == InitWith([Names -> RemoveSpecs])

\* the specs that differ in tag, registry and push
PushSpecs ==
    {GoodBuildArgs @@ tg @@ rg @@ pu @@ post :
        tg \in Opt("tag", {"test:latest"}),
        rg \in Opt("registry", {"myregistry.com"}),
        pu \in Opt("push", BOOLEAN),
        post \in Hooks("post_build")}
InitPush == InitWith(OneEnvironment(PushSpecs \cup {FullSpec}))

\* the specs that differ in what build_image reads
BuildSpecs ==
    {df @@ ba @@ pl @@ nc @@ tg :
        df \in Opt("dockerfile", {"invalid_path/Dockerfile"}),
        ba \in Opt("buildargs", SeqsUpTo(BuildArgPool, MaxBuildArgs)),
        pl \in Opt("platform", {SubSeq(PlatformPool, 1, n) : n \in 1..MaxPlatforms}),
        nc \in Opt("no_cache", {TRUE}),
        tg \in {EmptyDict, "tag" :> "test:latest", Target, Target @@ ("push" :> TRUE)}}
InitBuild == InitWith(OneEnvironment(BuildSpecs \cup {FullSpec}))

\* the specs that differ in what run_compose reads
ComposeSpecs ==
    {GoodBuildArgs @@ cf @@ ca :
        cf \in Opt("composefile", {"docker-compose.yml", "invalid_path/docker-compose.yml"}),
        ca \in Opt("composeargs", ComposeArgLists)}
InitCompose == InitWith(OneEnvironment(ComposeSpecs \cup {FullSpec}))

Next ==
    \/ \E a \in ArgsSet : Start(a)
    \/ ListEnvironments
    \/ RemoveEnvironment
    \/ ResolveEnvironment
    \/ \E o \in Outcomes : ProbeDocker(o)
    \/ \E o \in Outcomes : ProbeDockerCompose(o)
    \/ \E o \in Outcomes : ProbeComposeSubcommand(o)
    \/ \E o \in Outcomes, s \in Streams : PreBuild(o, s)
    \/ \E o \in Outcomes, s \in Streams : BuildImage(o, s)
    \/ \E o \in Outcomes, s \in Streams : RunCompose(o, s)
    \/ \E o \in Outcomes, s \in Streams : PushImage(o, s)
    \/ \E o \in Outcomes, s \in Streams : PostBuild(o, s)
    \/ \E o \in Outcomes : Interactive(o)

Spec == Init /\ [][Next]_vars

SpecRemove == InitRemove /\ [][Next]_vars

SpecPush == InitPush /\ [][Next]_vars

SpecBuild == InitBuild /\ [][Next]_vars

SpecCompose == InitCompose /\ [][Next]_vars

----------------------------------------------------------------------------
(* What the claims speak of. *)

\* the external steps in the order the specification gives them; the
\* toolchain probes come before all of them
StepRank(step) ==
    CASE step = "pre_build"   -> 1
      [] step = "build"       -> 2
      [] step = "compose"     -> 3
      [] step = "push"        -> 4
      [] step = "post_build"  -> 5
      [] step = "interactive" -> 6
      [] OTHER                -> 0

PipelineSteps == {"pre_build", "build", "compose", "push", "post_build"}

\* the calls of the run that belong to `step`, in order
RECURSIVE CallsOf(_, _)
CallsOf(step, log) ==
    IF log = << >> THEN << >>
    ELSE (IF Head(log).step = step THEN <<Head(log)>> ELSE << >>)
         \o CallsOf(step, Tail(log))

Invoked(step) == CallsOf(step, calls) # << >>

\* the run is a build run whose environment was found
Resolved == pc \notin {"idle", "main"} /\ ~args.list /\ args.remove = NotGiven
            /\ args.environment \in DOMAIN config

\* how many commands a step that main enters has to run
Expected(step, ec) ==
    CASE step \in {"pre_build", "post_build"} -> Len(ec[step])
      [] step = "push" -> IF push_has_target(ec) THEN 1 ELSE 0
      [] OTHER -> 1

\* C1: in a run for an environment that exists the external steps are
\* invoked in the order pre-build hooks, build, compose up, push, post-build
\* hooks, interactive shell: the log is ordered by step; when a step is
\* invoked, every earlier step the run enables has run all its commands and
\* each has exited with status 0; build, compose up, push and the shell are
\* invoked at most once and the hooks of a list once each in list order;
\* the shell is invoked only when the spec requests it and after the build
\* (and the compose up, unless skipped) succeeded.
C1_FixedOrder ==
    Resolved =>
        /\ \A i, j \in 1..Len(calls) :
              i < j => StepRank(calls[i].step) <= StepRank(calls[j].step)
        /\ \A j \in 1..Len(calls) : \A t \in PipelineSteps :
              (StepRank(t) < StepRank(calls[j].step) /\ Enters(t, env_config, args))
              => /\ Len(CallsOf(t, SubSeq(calls, 1, j - 1))) = Expected(t, env_config)
                 /\ \A i \in 1..(j - 1) :
                       calls[i].step = t => calls[i].outcome = "ok"
        /\ \A t \in {"build", "compose", "push", "interactive"} :
              Len(CallsOf(t, calls)) <= 1
        /\ \A t \in {"pre_build", "post_build"} :
              LET done == CallsOf(t, calls)
              IN  /\ Len(done) <= Len(Get(env_config, t, << >>))
                  /\ \A i \in 1..Len(done) : done[i].argv = <<env_config[t][i]>>
        /\ \A t \in PipelineSteps \cup {"interactive"} :
              Invoked(t) => Enters(t, env_config, args)
        /\ Invoked("interactive") =>
              /\ Get(env_config, "interactive", FALSE)
              /\ \E i \in 1..Len(calls) :
                    calls[i].step = "build" /\ calls[i].outcome = "ok"
              /\ Enters("compose", env_config, args) =>
                    \E i \in 1..Len(calls) :
                        calls[i].step = "compose" /\ calls[i].outcome = "ok"

\* a run that went through all six steps, two hooks before and after
C1_Witness ==
    /\ Resolved /\ pc = "done" /\ exit_code = 0
    /\ \A t \in PipelineSteps \cup {"interactive"} : Invoked(t)
    /\ Len(CallsOf("pre_build", calls)) = 2
    /\ Len(CallsOf("post_build", calls)) = 2

\* the run is a build run (neither --list nor --remove) that has started
BuildRun == pc \notin {"idle", "main"} /\ ~args.list /\ args.remove = NotGiven

AllOk == \A i \in 1..Len(calls) : calls[i].outcome = "ok"

\* the command exited with status 0 and the code went on after it
Passed(call) == call.outcome = "ok" /\ ~call.unicode_error

\* no output of the run failed to decode
AllDecoded == \A i \in 1..Len(calls) : ~calls[i].unicode_error

\* an output that does not decode is the last thing the run does, and the
\* run ends with exit status 1 of an uncaught UnicodeDecodeError
DecodeIsFatal ==
    \A i \in 1..Len(calls) :
        calls[i].unicode_error
        => /\ i = Len(calls)
           /\ calls[i].step \in PipelineSteps
           /\ pc = "done"
           /\ exit_code = 1
           /\ exc = "UnicodeDecodeError"

\* a non-zero exit of a pipeline command is the last thing the run does,
\* and the run ends with exit status 1
FailureIsFatal ==
    \A i \in 1..Len(calls) :
        (calls[i].step \in PipelineSteps /\ calls[i].outcome # "ok")
        => /\ i = Len(calls)
           /\ pc = "done"
           /\ exit_code = 1

ChecksPass(ec, a) ==
    /\ build_image_error(ec) = ""
    /\ Enters("compose", ec, a) => run_compose_error(ec) = ""
    /\ Enters("interactive", ec, a) => Get(ec, "container", "") # ""

C3_UnknownEnvironment ==
    (BuildRun /\ args.environment \notin DOMAIN file0) =>
        /\ pc = "done"
        /\ exit_code = 1
        /\ calls = << >>
        /\ writes = 0
        /\ file = file0

\* a run for a name the file does not hold, with --push
C3_Witness ==
    /\ BuildRun /\ args.environment = Unknown /\ args.push
    /\ file0 # EmptyDict
    /\ pc = "done"

ProbeOk(step) == \E i \in 1..Len(calls) : calls[i].step = step /\ calls[i].outcome = "ok"

StartsWith(list, form) ==
    Len(list) >= Len(form) /\ SubSeq(list, 1, Len(form)) = form

\* the compose up of the run starts with the tokens `form`
ComposeUses(form) ==
    \A i \in 1..Len(calls) :
        calls[i].step = "compose" => StartsWith(calls[i].argv, form)

\* C5: after the docker probe, docker-compose is probed before the docker
\* compose subcommand, which is probed when, and only when, docker-compose
\* exited non-zero or is missing; the compose up uses docker-compose when
\* its probe succeeded and docker compose when only the subcommand's did;
\* when the docker probe fails, or both compose probes do, or a probe's
\* binary cannot be executed, the run ends with an error and no hook,
\* build, compose up, push or shell is invoked.
C5_Toolchain ==
    Resolved =>
        /\ \A i \in 1..Len(calls) :
              /\ calls[i].step = "probe_docker" => i = 1
              /\ calls[i].step = "probe_docker_compose" =>
                    i = 2 /\ calls[1].outcome = "ok"
              /\ calls[i].step = "probe_compose_subcommand" =>
                    /\ i = 3
                    /\ calls[2].step = "probe_docker_compose"
                    /\ calls[2].outcome \in {"nonzero", "missing"}
              /\ (calls[i].step = "probe_docker_compose"
                  /\ calls[i].outcome \in {"nonzero", "missing"}) =>
                    \/ pc = "health_fallback"
                    \/ /\ Len(calls) > i
                       /\ calls[i + 1].step = "probe_compose_subcommand"
              /\ StepRank(calls[i].step) > 0 =>
                    /\ i > 2
                    /\ ProbeOk("probe_docker")
                    /\ ProbeOk("probe_docker_compose") \/ ProbeOk("probe_compose_subcommand")
        /\ ProbeOk("probe_docker_compose") =>
              /\ ComposeUses(<<"docker-compose">>)
              /\ StartsWith(compose_command, <<"docker-compose">>)
        /\ ProbeOk("probe_compose_subcommand") =>
              /\ ComposeUses(<<"docker", "compose">>)
              /\ StartsWith(compose_command, <<"docker", "compose">>)
        /\ (\E i \in 1..Len(calls) :
                /\ \/ calls[i].step \in {"probe_docker", "probe_compose_subcommand"}
                   \/ calls[i].step = "probe_docker_compose"
                      /\ calls[i].outcome = "denied"
                /\ calls[i].outcome # "ok")
           => /\ pc = "done"
              /\ exit_code = 1
              /\ exc # ""
              /\ \A i \in 1..Len(calls) : StepRank(calls[i].step) = 0

\* docker-compose is missing, docker compose answers, and the compose up
\* has run in the docker compose form
C5_Witness ==
    /\ Resolved
    /\ Len(calls) >= 3
    /\ calls[2].step = "probe_docker_compose" /\ calls[2].outcome = "missing"
    /\ ProbeOk("probe_compose_subcommand")
    /\ Invoked("compose")

Last(log) == log[Len(log)]

\* C6: with a Dockerfile path that does not exist the build step raises
\* FileNotFoundError and runs nothing: no docker build, compose up, push,
\* post-build hook or shell is ever invoked in that run, and the run ends
\* with exit status 1.  With a compose file path that does not exist the
\* compose step raises FileNotFoundError before the compose tool is
\* invoked, and nothing is invoked after the build.
C6_MissingFile ==
    Resolved =>
        /\ ~exists(dockerfile_of(env_config)) =>
              /\ \A i \in 1..Len(calls) : StepRank(calls[i].step) <= 1
              /\ (pc = "done" /\ Passed(Last(calls))) =>
                    exc = "FileNotFoundError" /\ exit_code = 1
        /\ (~exists(compose_file_of(env_config)) /\ Enters("compose", env_config, args)) =>
              /\ \A i \in 1..Len(calls) : StepRank(calls[i].step) <= 2
              /\ (pc = "done" /\ Passed(Last(calls))) =>
                    exc # "" /\ exit_code = 1
              /\ (pc = "done" /\ Last(calls).step = "build" /\ Passed(Last(calls))) =>
                    exc = "FileNotFoundError"

\* the build step met a missing Dockerfile after the pre-build hooks ran
C6_Witness ==
    /\ Resolved /\ pc = "done"
    /\ ~exists(dockerfile_of(env_config))
    /\ exc = "FileNotFoundError"
    /\ Last(calls).step = "pre_build" /\ Passed(Last(calls))
    /\ args.push

\* the run is a --remove run that has started
RemoveRun == pc \notin {"idle"} /\ ~args.list /\ args.remove # NotGiven

\* a composeargs mapping, without the order of its items
AsMapping(items) == {items[i] : i \in 1..Len(items)}

\* two environment specs hold the same data
SameSpec(s1, s2) ==
    /\ DOMAIN s1 = DOMAIN s2
    /\ \A k \in DOMAIN s1 :
          IF k = "composeargs"
          THEN AsMapping(s1[k]) = AsMapping(s2[k]) /\ Len(s1[k]) = Len(s2[k])
          ELSE s1[k] = s2[k]

\* C4: a --remove run never runs a docker or compose command; when it has
\* ended, and the name was a key of the file, the file holds exactly the
\* environments it held before less that key, each with its spec unchanged
\* (the composeargs items in the order they had); and when the name was not
\* a key (never was, or was removed by an earlier run) the run reports that
\* it was not found and the file is as it was.
C4_AsStated ==
    RemoveRun =>
        /\ calls = << >>
        /\ pc = "main" => file = file0 /\ writes = 0
        /\ pc = "done" =>
              /\ exit_code = 0
              /\ IF args.remove \in DOMAIN file0
                 THEN /\ DOMAIN file = DOMAIN file0 \ {args.remove}
                      /\ \A n \in DOMAIN file : file[n] = file0[n]
                      /\ writes = 1
                      /\ stdout = Printed("removed.", {args.remove})
                 ELSE /\ file = file0
                      /\ writes = 0
                      /\ stdout = Printed("not found.", {args.remove})

\* what the rewrite does keep: the same, with the specs of the other
\* environments compared as data, whatever the order of their composeargs
C4_Remove ==
    RemoveRun =>
        /\ calls = << >>
        /\ pc = "main" => file = file0 /\ writes = 0
        /\ pc = "done" =>
              /\ exit_code = 0
              /\ IF args.remove \in DOMAIN file0
                 THEN /\ DOMAIN file = DOMAIN file0 \ {args.remove}
                      /\ \A n \in DOMAIN file : SameSpec(file[n], file0[n])
                      /\ writes = 1
                      /\ stdout = Printed("removed.", {args.remove})
                 ELSE /\ file = file0
                      /\ writes = 0
                      /\ stdout = Printed("not found.", {args.remove})

\* test is removed a second time: every file starts with test and prod,
\* so test has been removed by an earlier run, and prod is still there
C4_Witness ==
    /\ RemoveRun /\ pc = "done"
    /\ args.remove = "test"
    /\ "test" \notin DOMAIN file0
    /\ "prod" \in DOMAIN file
    /\ stdout.msg = "not found."

\* the run has gone through main's push statement
PushStepOver ==
    /\ Resolved
    /\ Enters("push", env_config, args)
    /\ \/ pc \in {"post_build", "interactive"}
       \/ pc = "done" /\ exit_code = 0
       \/ Invoked("push") \/ Invoked("post_build") \/ Invoked("interactive")

HasTarget(ec) == "tag" \in DOMAIN ec /\ "registry" \in DOMAIN ec

RegistryName(ec) == ec["registry"] \o "/" \o ec["tag"]

RunPushes(ec, a) == (a.push \/ Get(ec, "push", FALSE)) /\ HasTarget(ec)

\* the image-build argument list as C8 words it
C8_List(ec, a) ==
    <<"docker", "build", "-f", Get(ec, "dockerfile", "Dockerfile")>>
    \o (IF a.no_cache \/ Get(ec, "no_cache", FALSE) THEN <<"--no-cache">> ELSE << >>)
    \o Flatten([i \in 1..Len(Get(ec, "buildargs", << >>)) |->
                   <<"--build-arg", Join("=", ec["buildargs"][i])>>])
    \o (IF "platform" \in DOMAIN ec
        THEN <<"--platform", Join(",", ec["platform"])>> ELSE << >>)
    \o (IF "tag" \in DOMAIN ec
        THEN <<"-t", IF RunPushes(ec, a) THEN RegistryName(ec) ELSE ec["tag"]>>
        ELSE << >>)
    \o <<".">>

\* C8: the argument list of every docker build is docker build -f
\* <dockerfile>, --no-cache iff --no-cache or the spec's no_cache, one
\* --build-arg pair per buildargs entry in order, the platform flag iff
\* platform is present, -t <name> iff tag is present, with <name> the
\* <registry>/<tag> when the run pushes to a registry and <tag> otherwise,
\* and a final '.'.
C8_AsStated ==
    Resolved => \A i \in 1..Len(calls) :
        calls[i].step = "build" => calls[i].argv = C8_List(env_config, args)

\* the compose argument list as C9 words it: nothing in a spec configures
\* detached mode, so the list ends with up
C9_List(ec, form) ==
    form
    \o <<"-f", Get(ec, "composefile", "docker-compose.yml")>>
    \o Flatten(Get(ec, "composeargs", << >>))
    \o <<"up">>

\* C9: the argument list of every compose up is the compose binary's
\* tokens, -f <composefile>, each composeargs flag and its value in
\* insertion order, then up, with no -d after it unless detached mode is
\* configured: [docker-compose, -f, docker-compose.yml, -d, '', up] for
\* composeargs {-d: ''}.
C9_AsStated ==
    Resolved => \A i \in 1..Len(calls) :
        calls[i].step = "compose" =>
            calls[i].argv =
                C9_List(env_config,
                        IF ProbeOk("probe_docker_compose")
                        THEN <<"docker-compose">> ELSE <<"docker", "compose">>)

\* main's build statement is over: docker build was invoked, or the run
\* ended inside build_image before invoking anything
BuildStepOver ==
    /\ Resolved
    /\ \/ Invoked("build")
       \/ /\ pc = "done"
          /\ Passed(Last(calls))
          /\ StepRank(Last(calls).step) <= 1

Entries(ec) == Get(ec, "buildargs", << >>)

\* some buildargs entry has the key BUILD_ENV before its first '='
HasBuildEnv(ec) == \E i \in 1..Len(Entries(ec)) : Entries(ec)[i][1] = "BUILD_ENV"

\* every buildargs entry holds a '='
AllKeyValue(ec) == \A i \in 1..Len(Entries(ec)) : Len(Entries(ec)[i]) >= 2

\* C10 as stated: the build step fails with KeyError iff no buildargs
\* entry has the key BUILD_ENV; when it fails docker build is not invoked;
\* when BUILD_ENV is present the validation does not block the build.
C10_AsStated ==
    BuildStepOver =>
        /\ exc = "KeyError" <=> ~HasBuildEnv(env_config)
        /\ exc = "KeyError" => ~Invoked("build")
        /\ (HasBuildEnv(env_config) /\ exists(dockerfile_of(env_config))) =>
              Invoked("build")

\* C10, amended: when the Dockerfile exists, the build step fails with
\* KeyError iff every buildargs entry holds a '=' and none has the key
\* BUILD_ENV (buildargs absent or empty included), and with IndexError iff
\* some entry holds no '='; in both cases docker build is not invoked;
\* when every entry holds a '=' and one has the key BUILD_ENV docker build
\* is invoked.  When the Dockerfile does not exist the step fails with
\* FileNotFoundError whatever the buildargs.
C10_RequiredBuildArg ==
    BuildStepOver =>
        LET ec == env_config
            df == exists(dockerfile_of(ec))
        IN  /\ (exc = "KeyError" /\ ~Invoked("build"))
                  <=> (df /\ AllKeyValue(ec) /\ ~HasBuildEnv(ec))
            /\ (exc = "IndexError" /\ ~Invoked("build"))
                  <=> (df /\ ~AllKeyValue(ec))
            /\ Invoked("build") <=> (df /\ AllKeyValue(ec) /\ HasBuildEnv(ec))
            /\ ~df => exc = "FileNotFoundError" /\ ~Invoked("build")

\* buildargs hold FOO=a=b only: KeyError, and no docker build
C10_Witness ==
    /\ BuildStepOver /\ pc = "done"
    /\ exc = "KeyError" /\ exit_code = 1
    /\ Entries(env_config) = << <<"FOO", "a", "b">> >>
    /\ ~Invoked("build")

\* the run is in build-only mode: --buildonly, or buildonly true in the spec
BuildOnly(ec, a) == a.buildonly \/ Get(ec, "buildonly", FALSE)

\* the docker build of the run exited with status 0
BuildSucceeded ==
    \E i \in 1..Len(calls) : calls[i].step = "build" /\ calls[i].outcome = "ok"

\* C11: in build-only mode (--buildonly, or buildonly true in the spec) a
\* run that comes to its build step with a Dockerfile on disk invokes
\* docker build, and no run in that mode invokes compose up; in a run where
\* neither is set, compose up is what follows a docker build that
\* succeeded (if the compose file exists).  A spec that holds only a tag
\* builds, in build-only mode, with docker build -f Dockerfile -t <tag> .
C11_AsStated ==
    Resolved =>
        LET ec == env_config
        IN  /\ BuildOnly(ec, args) => ~Invoked("compose")
            /\ (BuildOnly(ec, args) /\ BuildStepOver /\ exists(dockerfile_of(ec)))
                  => Invoked("build")
            /\ (~BuildOnly(ec, args) /\ BuildSucceeded) =>
                  /\ \A i \in 1..Len(calls) :
                        (calls[i].step = "build" /\ i < Len(calls))
                        => calls[i + 1].step = "compose"
                  /\ \/ Invoked("compose")
                     \/ pc = "compose"
                     \/ ~exists(compose_file_of(ec)) /\ exc = "FileNotFoundError"
            /\ (DOMAIN ec = {"tag"} /\ BuildOnly(ec, args) /\ BuildStepOver) =>
                  /\ Invoked("build")
                  /\ CallsOf("build", calls)[1].argv =
                        <<"docker", "build", "-f", "Dockerfile", "-t", ec["tag"], ".">>

\* argv names the image `name` with -t
TagsAs(argv, name) ==
    \E k \in 1..(Len(argv) - 1) : argv[k] = "-t" /\ argv[k + 1] = name

\* argv is docker tag <source> <name>
RetagsAs(argv, name) ==
    Len(argv) = 4 /\ argv[1] = "docker" /\ argv[2] = "tag" /\ argv[4] = name

\* C12: whenever the push step issues docker push <registry>/<tag>, an
\* earlier command of the same run gave the image that name: the docker
\* build with -t <registry>/<tag>, or a docker tag ... <registry>/<tag>;
\* under every combination of --push and the spec's push.
C12_AsStated ==
    Resolved => \A i \in 1..Len(calls) :
        (calls[i].step = "push" /\ calls[i].argv[2] = "push") =>
            \E j \in 1..(i - 1) :
                \/ calls[j].step = "build" /\ TagsAs(calls[j].argv, calls[i].argv[3])
                \/ RetagsAs(calls[j].argv, calls[i].argv[3])

====
